---- MODULE Spec2Model ----
(***************************************************************************)
(* A model of exif-renamer.py: the criteria evaluator, the filename        *)
(* synthesizer and the directory traversal with its checkpoint markers.    *)
(* Text is modelled as a sequence of one-character strings.                *)
(***************************************************************************)
EXTENDS Integers, Sequences, FiniteSets, TLC

VARIABLES
    names,          \* directory -> its name (one path component)
    markers,        \* directory -> whether .processed_marker exists in it
    initMarkers,    \* history: the markers that existed before the first run
    debug,          \* args.debug
    report_filename,\* the report_filename argument: "None" or "set"
    pc,             \* position of the driver
    stack,          \* directories os.walk has still to yield, next first
    cur,            \* the directory whose files are being processed
    idx,            \* index of the next entry of the listing of cur
    visited,        \* directories that reached the file loop, this run
    skipped,        \* directories skipped because of their marker, this run
    excluded,       \* directories skipped because of the keyword, this run
    evaluated,      \* files passed to the metadata reader, this run
    qualified,      \* files that met the renaming criteria, this run
    written,        \* directories marked completed by this run
    everEvaluated,  \* history: files passed to the metadata reader in any run
    run,            \* number of the current invocation of the tool
    copies,         \* the calls of copy_and_rename_file and their outcome
    report_rows,    \* the in-memory report buffer
    csv,            \* the rows of the CSV file, <<>> while it does not exist
    printed,        \* [DEBUG] Would rename lines printed
    pmeta,          \* pure-function check: the metadata mapping
    ppath,          \* pure-function check: the original file name
    pstep,          \* pure-function check: position
    pqual,          \* pure-function check: result of meets_renaming_criteria
    pname           \* pure-function check: result of generate_new_filename

vars == <<names, markers, initMarkers, debug, report_filename, pc, stack, cur,
          idx, visited, skipped, excluded, evaluated, qualified, written, everEvaluated,
          run, copies, report_rows, csv, printed, pmeta, ppath, pstep, pqual,
          pname>>

travVars == <<names, markers, initMarkers, debug, report_filename, pc, stack,
              cur, idx, visited, skipped, excluded, evaluated, qualified, written,
              everEvaluated, run, copies, report_rows, csv, printed>>

pureVars == <<pmeta, ppath, pstep, pqual, pname>>

----------------------------------------------------------------------------
(* Text helpers: the str methods and re calls the script uses.             *)

Uppers == <<"A","B","C","D","E","F","G","H","I","J","K","L","M",
            "N","O","P","Q","R","S","T","U","V","W","X","Y","Z">>

Lowers == <<"a","b","c","d","e","f","g","h","i","j","k","l","m",
            "n","o","p","q","r","s","t","u","v","w","x","y","z">>

LowerChar(c) ==
    IF \E i \in 1..Len(Uppers) : Uppers[i] = c
    THEN Lowers[CHOOSE i \in 1..Len(Uppers) : Uppers[i] = c]
    ELSE c

\* str.lower()
Lower(s) == [i \in 1..Len(s) |-> LowerChar(s[i])]

\* str.endswith(suffix)
EndsWith(s, suf) ==
    /\ Len(suf) <= Len(s)
    /\ SubSeq(s, Len(s) - Len(suf) + 1, Len(s)) = suf

\* sub in s
Contains(s, sub) ==
    \E p \in 1..(Len(s) - Len(sub) + 1) : SubSeq(s, p, p + Len(sub) - 1) = sub

Digits == {"0","1","2","3","4","5","6","7","8","9"}

Whitespace == {" ", "\t", "\n"}

\* The regular expression \d{4}:\d{2}:\d{2}, one element per character:
\* "d" stands for \d, anything else for itself.
DatePattern == <<"d","d","d","d",":","d","d",":","d","d">>

\* Whether the pattern matches s starting at position p.
MatchesAt(s, p) ==
    /\ p >= 1
    /\ p + Len(DatePattern) - 1 <= Len(s)
    /\ \A k \in 1..Len(DatePattern) :
          IF DatePattern[k] = "d"
          THEN s[p + k - 1] \in Digits
          ELSE s[p + k - 1] = DatePattern[k]

\* re.match: anchored at the start of the text.
ReMatch(s) == MatchesAt(s, 1)

\* re.search: the position of the leftmost match, 0 when there is none.
ReSearch(s) ==
    IF \E p \in 1..Len(s) : MatchesAt(s, p)
    THEN CHOOSE p \in 1..Len(s) :
            MatchesAt(s, p) /\ \A q \in 1..(p - 1) : ~MatchesAt(s, q)
    ELSE 0

\* str.strip()
RECURSIVE LStrip(_)
LStrip(s) ==
    IF s # <<>> /\ Head(s) \in Whitespace THEN LStrip(Tail(s)) ELSE s

RECURSIVE RStrip(_)
RStrip(s) ==
    IF s # <<>> /\ s[Len(s)] \in Whitespace
    THEN RStrip(SubSeq(s, 1, Len(s) - 1))
    ELSE s

Strip(s) == RStrip(LStrip(s))

\* re.sub(r'[...]', '', s): drop every character of the class.
RECURSIVE ReSubDrop(_, _)
ReSubDrop(s, class) ==
    IF s = <<>> THEN <<>>
    ELSE IF Head(s) \in class THEN ReSubDrop(Tail(s), class)
    ELSE <<Head(s)>> \o ReSubDrop(Tail(s), class)

\* str.replace(old, new) for a one-character old.
Replace(s, old, new) == [i \in 1..Len(s) |-> IF s[i] = old THEN new ELSE s[i]]

\* The character class of the headline sanitizer.
IllegalChars == {"\\", "/", ":", "*", "?", "\"", "<", ">", "|"}

\* pathlib: the position of the dot that starts the suffix, 0 if none.
RECURSIVE RFind(_, _)
RFind(s, c) ==
    IF s = <<>> THEN 0
    ELSE IF s[Len(s)] = c THEN Len(s)
    ELSE RFind(SubSeq(s, 1, Len(s) - 1), c)

HasSuffix(name) == 1 < RFind(name, ".") /\ RFind(name, ".") < Len(name)

\* Path.suffix
Suffix(name) ==
    IF HasSuffix(name) THEN SubSeq(name, RFind(name, "."), Len(name)) ELSE <<>>

\* Path.stem
Stem(name) ==
    IF HasSuffix(name) THEN SubSeq(name, 1, RFind(name, ".") - 1) ELSE name

\* Path.with_suffix
WithSuffix(name, suf) == Stem(name) \o suf

----------------------------------------------------------------------------
(* Metadata mappings. A mapping gives every key a value of one kind:       *)
(* "absent" (the key is not in the dict), "str" (text v) or "num" (a JSON  *)
(* number whose str() is v).                                               *)

Keys == {"DateTimeOriginal", "Headline", "Label", "Artist"}

Absent == [k |-> "absent", v |-> <<>>]

Str(s) == [k |-> "str", v |-> s]

Num(s) == [k |-> "num", v |-> s]

EmptyMapping == [key \in Keys |-> Absent]

\* dict.update(item)
Update(m, item) ==
    [key \in Keys |-> IF item[key].k # "absent" THEN item[key] ELSE m[key]]

\* str(metadata.get(key)): None prints as "None"
StrOf(val) == IF val.k = "absent" THEN <<"N","o","n","e">> ELSE val.v

\* bool(x and isinstance(x, str) and x.strip())
NonBlankText(val) ==
    /\ val.k # "absent"
    /\ val.v # <<>>
    /\ val.k = "str"
    /\ Strip(val.v) # <<>>

meets_renaming_criteria_NoLabel(metadata) ==
    /\ ReMatch(StrOf(metadata["DateTimeOriginal"]))
    /\ NonBlankText(metadata["Headline"])

meets_renaming_criteria(metadata) ==
    LET date_is_valid == ReMatch(StrOf(metadata["DateTimeOriginal"]))
        headline_is_valid == NonBlankText(metadata["Headline"])
        label_is_valid == NonBlankText(metadata["Label"])
    IN  date_is_valid /\ headline_is_valid /\ label_is_valid

UnknownDate == <<"u","n","k","n","o","w","n","_","d","a","t","e">>

NoHeadline == <<"n","o","_","h","e","a","d","l","i","n","e">>

\* metadata.get(key, default)
GetOr(metadata, key, default) ==
    IF metadata[key].k = "absent" THEN Str(default) ELSE metadata[key]

sanitize_KeepSpaces(headline) == ReSubDrop(headline, IllegalChars)

\* line 110
sanitize(headline) == Replace(ReSubDrop(headline, IllegalChars), " ", "_")

\* The result is [ok |-> TRUE, name |-> text], or ok = FALSE where re raises
\* TypeError on a value that is not text.
generate_new_filename(metadata, original_name) ==
    LET datetime_original == GetOr(metadata, "DateTimeOriginal", UnknownDate)
        headline == GetOr(metadata, "Headline", NoHeadline)
        p == ReSearch(datetime_original.v)
        formatted_date ==
            IF p # 0
            THEN ReSubDrop(SubSeq(datetime_original.v, p, p + 9), {":"})
            ELSE UnknownDate
    IN  IF headline.k # "str" \/ datetime_original.k # "str"
        THEN [ok |-> FALSE, name |-> <<>>]
        ELSE [ok |-> TRUE,
              name |-> formatted_date \o <<"_">> \o sanitize(headline.v)
                       \o <<"_">> \o Stem(original_name) \o Suffix(original_name)]

----------------------------------------------------------------------------
(* The directory tree. Directory 0 is the traversal root; the others are   *)
(* numbered in listing order.                                              *)

NumDirs == 3

Dirs == 0..NumDirs

Parent(d) == (d - 1) \div 2

\* The `dirs` list os.walk yields for d, in listing order.
Children(d) ==
    SelectSeq([i \in 1..NumDirs |-> i], LAMBDA c : Parent(c) = d)

RECURSIVE IsUnder(_, _)
IsUnder(e, d) ==
    IF e = 0 THEN FALSE
    ELSE Parent(e) = d \/ IsUnder(Parent(e), d)

Descendants(d) == {e \in Dirs : IsUnder(e, d)}

DirNames ==
    { <<"p","i","c","s">>,
      <<"R","e","c","e","i","v","e">>,
      <<"R","e","c","e","i","v","e","d","_","2","0","2","0">>,
      <<"o","l","d","R","E","C","E","I","V","E","D">> }

\* The `files` list os.walk yields for d.
FileListing(d) ==
    CASE d % 3 = 0 -> << <<"a",".","J","P","G">>, <<"a",".","x","m","p">>,
                         <<"n",".","t","x","t">> >>
      [] d % 3 = 1 -> << <<"b",".","n","e","f">>, <<"c",".","M","p","4">> >>
      [] OTHER     -> << <<"n",".","t","x","t">>, <<"d",".","j","p","e","g">> >>

Files == UNION {{<<d, i>> : i \in 1..Len(FileListing(d))} : d \in Dirs}

FileName(f) == FileListing(f[1])[f[2]]

MediaExtensions ==
    { <<".","n","e","f">>, <<".","c","r","3">>, <<".","p","s","d">>,
      <<".","j","p","g">>, <<".","j","p","e","g">>, <<".","p","n","g">>,
      <<".","t","i","f">>, <<".","t","i","f","f">>, <<".","h","e","i","c">>,
      <<".","h","e","i","f">>, <<".","d","n","g">>, <<".","a","v","i","f">>,
      <<".","m","o","v">>, <<".","m","p","4">> }

\* file.lower().endswith((...))
is_media(name) == \E ext \in MediaExtensions : EndsWith(Lower(name), ext)

MediaFiles(d) == {f \in Files : f[1] = d /\ is_media(FileName(f))}

Xmp == <<".","x","m","p">>

\* file_path.with_suffix(".xmp").exists()
xmp_exists(f) ==
    \E i \in 1..Len(FileListing(f[1])) :
        FileListing(f[1])[i] = WithSuffix(FileName(f), Xmp)

\* str(root_path.relative_to(archive_dir))
RECURSIVE RelPath(_)
RelPath(d) ==
    IF d = 0 THEN <<".">>
    ELSE IF Parent(d) = 0 THEN names[d]
    ELSE RelPath(Parent(d)) \o <<"/">> \o names[d]

Keyword == <<"r","e","c","e","i","v","e","d">>

is_received_CaseSensitive(relative_path) == Contains(relative_path, Keyword)

\* "received" in str(relative_path).lower()
is_received(relative_path) == Contains(Lower(relative_path), Keyword)

is_directory_completed_Never(d) == FALSE

\* (root / relative_path / CHECKPOINT_FILENAME).exists()
is_directory_completed(d) == markers[d]

is_subdirectory_Always(relative_path) == TRUE

\* relative_path != Path(".")
is_subdirectory(relative_path) == relative_path # <<".">>

\* mark_directory_completed: the markers after writing the one of d
mark_directory_completed(d) == [markers EXCEPT ![d] = TRUE]

cleanup_targets_WrittenOnly == {d \in Dirs : markers[d] /\ d \in written}

\* root_directory.rglob(CHECKPOINT_FILENAME)
cleanup_targets == {d \in Dirs : markers[d]}

\* What evaluating the global name `report` gives inside traverse_and_rename:
\* the module binds no such name, so the lookup raises NameError.
report == "NameError"

Header == <<"Current Filename", "Current Full Path", "Expected New Filename",
            "Future Full Path">>

----------------------------------------------------------------------------
(* The metadata reader. The external tool either fails or prints one       *)
(* mapping per file it was given.                                          *)

SampleDate == <<"2","0","2","1",":","0","7",":","0","4"," ","1","0",":","1","5">>

SampleMaps ==
    { [EmptyMapping EXCEPT !["DateTimeOriginal"] = Str(SampleDate),
                           !["Headline"] = Str(<<"P","i","c","n","i","c">>),
                           !["Label"] = Str(<<"R","e","d">>)],
      [EmptyMapping EXCEPT !["DateTimeOriginal"] = Str(SampleDate),
                           !["Headline"] = Str(<<"D","a","y"," ","1">>)],
      [EmptyMapping EXCEPT !["Label"] = Str(<<"R","e","d">>)] }

\* What subprocess.run and json.loads can give for a call on n files.
ToolOutcomes(n) ==
    { [status |-> "CalledProcessError", items |-> <<>>],
      [status |-> "JSONDecodeError", items |-> <<>>] }
    \cup { [status |-> "ok", items |-> it] : it \in [1..n -> SampleMaps] }

RECURSIVE MergeAll(_, _)
MergeAll(merged, items) ==
    IF items = <<>> THEN merged
    ELSE MergeAll(Update(merged, Head(items)), Tail(items))

get_current_metadata_from_cli(outcome) ==
    IF outcome.status = "ok" THEN MergeAll(EmptyMapping, outcome.items)
    ELSE EmptyMapping

----------------------------------------------------------------------------
(* traverse_and_rename, one step per iteration of its loops.               *)

Encountered == visited \cup skipped \cup excluded

\* os.walk yields a directory that bears the marker: lines 154-158.
SkipCompleted ==
    /\ pc = "walk"
    /\ stack # <<>>
    /\ is_directory_completed(Head(stack))
    /\ skipped' = skipped \cup {Head(stack)}
    /\ stack' = Tail(stack)
    /\ UNCHANGED <<names, markers, initMarkers, debug, report_filename, pc,
                   cur, idx, visited, excluded, evaluated, qualified, written,
                   everEvaluated, run, copies, report_rows, csv, printed>>
    /\ UNCHANGED pureVars

\* os.walk yields a directory with the keyword in its path: lines 161-164.
SkipReceived ==
    /\ pc = "walk"
    /\ stack # <<>>
    /\ ~is_directory_completed(Head(stack))
    /\ is_received(RelPath(Head(stack)))
    /\ excluded' = excluded \cup {Head(stack)}
    /\ stack' = Tail(stack)
    /\ UNCHANGED <<names, markers, initMarkers, debug, report_filename, pc,
                   cur, idx, visited, skipped, evaluated, qualified, written,
                   everEvaluated, run, copies, report_rows, csv, printed>>
    /\ UNCHANGED pureVars

\* os.walk yields a directory that is processed: the file loop starts.
EnterDirectory ==
    /\ pc = "walk"
    /\ stack # <<>>
    /\ ~is_directory_completed(Head(stack))
    /\ ~is_received(RelPath(Head(stack)))
    /\ visited' = visited \cup {Head(stack)}
    /\ cur' = Head(stack)
    /\ idx' = 1
    /\ stack' = Tail(stack)
    /\ pc' = "files"
    /\ UNCHANGED <<names, markers, initMarkers, debug, report_filename,
                   skipped, excluded, evaluated, qualified, written,
                   everEvaluated, run, copies, report_rows, csv, printed>>
    /\ UNCHANGED pureVars

\* An entry without a media extension: line 168 is false.
SkipNonMedia ==
    /\ pc = "files"
    /\ idx <= Len(FileListing(cur))
    /\ ~is_media(FileListing(cur)[idx])
    /\ idx' = idx + 1
    /\ UNCHANGED <<names, markers, initMarkers, debug, report_filename, pc,
                   stack, cur, visited, skipped, excluded, evaluated,
                   qualified, written, everEvaluated, run, copies,
                   report_rows, csv, printed>>
    /\ UNCHANGED pureVars

\* copy_and_rename_file: the call is recorded with whether copy2 succeeded.
copy_and_rename_file(f, src, new_filename, ok) ==
    [file |-> f, src |-> src, dst |-> new_filename, ok |-> ok]

\* A media entry: lines 172-203.
ProcessMediaFile ==
    /\ pc = "files"
    /\ idx <= Len(FileListing(cur))
    /\ is_media(FileListing(cur)[idx])
    /\ \E outcome \in ToolOutcomes(IF xmp_exists(<<cur, idx>>) THEN 2 ELSE 1),
          ok1 \in BOOLEAN, ok2 \in BOOLEAN :
        LET f == <<cur, idx>>
            metadata == get_current_metadata_from_cli(outcome)
            new_filename == generate_new_filename(metadata, FileName(f)).name
        IN  /\ evaluated' = evaluated \cup {f}
            /\ everEvaluated' = everEvaluated \cup {f}
            /\ IF meets_renaming_criteria(metadata)
               THEN /\ qualified' = qualified \cup {f}
                    /\ printed' = IF debug
                                  THEN printed \cup {<<f, new_filename>>}
                                  ELSE printed
                    /\ IF report = "NameError"
                       THEN /\ pc' = "crashed"
                            /\ UNCHANGED <<idx, report_rows, copies>>
                       ELSE IF report = "True"
                       THEN /\ report_rows' = Append(report_rows,
                                   [file |-> f, new |-> new_filename])
                            /\ idx' = idx + 1
                            /\ UNCHANGED <<pc, copies>>
                       ELSE /\ copies' = copies
                                   \cup {copy_and_rename_file(f, FileName(f),
                                                              new_filename, ok1)}
                                   \cup (IF xmp_exists(f)
                                         THEN {copy_and_rename_file(f,
                                                 WithSuffix(FileName(f), Xmp),
                                                 WithSuffix(new_filename, Xmp),
                                                 ok2)}
                                         ELSE {})
                            /\ idx' = idx + 1
                            /\ UNCHANGED <<pc, report_rows>>
               ELSE /\ idx' = idx + 1
                    /\ UNCHANGED <<pc, qualified, printed, report_rows, copies>>
    /\ UNCHANGED <<names, markers, initMarkers, debug, report_filename, stack,
                   cur, visited, skipped, excluded, written, run, csv>>
    /\ UNCHANGED pureVars

\* The file loop is over: lines 205-207, and os.walk goes on to the `dirs`.
FinishDirectory ==
    /\ pc = "files"
    /\ idx > Len(FileListing(cur))
    /\ IF is_subdirectory(RelPath(cur))
       THEN /\ markers' = mark_directory_completed(cur)
            /\ written' = written \cup {cur}
       ELSE UNCHANGED <<markers, written>>
    /\ stack' = Children(cur) \o stack
    /\ pc' = "walk"
    /\ UNCHANGED <<names, initMarkers, debug, report_filename, cur, idx,
                   visited, skipped, excluded, evaluated, qualified,
                   everEvaluated, run, copies, report_rows, csv, printed>>
    /\ UNCHANGED pureVars

\* os.walk is exhausted: lines 210-216, and traverse_and_rename returns.
EndTraversal ==
    /\ pc = "walk"
    /\ stack = <<>>
    /\ csv' = IF report_filename # "None" /\ report_rows # <<>>
              THEN <<Header>> \o report_rows
              ELSE csv
    /\ pc' = "cleanup"
    /\ UNCHANGED <<names, markers, initMarkers, debug, report_filename, stack,
                   cur, idx, visited, skipped, excluded, evaluated, qualified,
                   written, everEvaluated, run, copies, report_rows, printed>>
    /\ UNCHANGED pureVars

\* cleanup_checkpoints: one iteration of the loop over rglob.
CleanupStep ==
    /\ pc = "cleanup"
    /\ cleanup_targets # {}
    /\ LET d == CHOOSE x \in cleanup_targets : \A y \in cleanup_targets : x <= y
       IN  markers' = [markers EXCEPT ![d] = FALSE]
    /\ UNCHANGED <<names, initMarkers, debug, report_filename, pc, stack, cur,
                   idx, visited, skipped, excluded, evaluated, qualified,
                   written, everEvaluated, run, copies, report_rows, csv,
                   printed>>
    /\ UNCHANGED pureVars

\* cleanup_checkpoints returns and the script ends.
CleanupDone ==
    /\ pc = "cleanup"
    /\ cleanup_targets = {}
    /\ pc' = "done"
    /\ UNCHANGED <<names, markers, initMarkers, debug, report_filename, stack,
                   cur, idx, visited, skipped, excluded, evaluated, qualified,
                   written, everEvaluated, run, copies, report_rows, csv,
                   printed>>
    /\ UNCHANGED pureVars

\* The operator terminates the process.
MaxRuns == 2

Kill ==
    /\ pc \in {"walk", "files", "cleanup"}
    /\ run < MaxRuns
    /\ pc' = "killed"
    /\ UNCHANGED <<names, markers, initMarkers, debug, report_filename, stack,
                   cur, idx, visited, skipped, excluded, evaluated, qualified,
                   written, everEvaluated, run, copies, report_rows, csv,
                   printed>>
    /\ UNCHANGED pureVars

\* The tool is started again on the same tree with the same arguments.
Restart ==
    /\ pc = "killed"
    /\ run' = run + 1
    /\ pc' = "walk"
    /\ stack' = <<0>>
    /\ cur' = 0
    /\ idx' = 1
    /\ visited' = {}
    /\ skipped' = {}
    /\ excluded' = {}
    /\ evaluated' = {}
    /\ qualified' = {}
    /\ written' = {}
    /\ report_rows' = <<>>
    /\ printed' = {}
    /\ UNCHANGED <<names, markers, initMarkers, debug, report_filename,
                   everEvaluated, copies, csv>>
    /\ UNCHANGED pureVars

SiblingsDiffer(nm) ==
    \A a, b \in 1..NumDirs : (a # b /\ Parent(a) = Parent(b)) => nm[a] # nm[b]

PureOff ==
    /\ pmeta = EmptyMapping
    /\ ppath = <<>>
    /\ pstep = "off"
    /\ pqual = FALSE
    /\ pname = [ok |-> FALSE, name |-> <<>>]

\* The state when __main__ calls traverse_and_rename.
Init ==
    /\ names \in {nm \in [1..NumDirs -> DirNames] : SiblingsDiffer(nm)}
    /\ markers \in [Dirs -> BOOLEAN]
    /\ initMarkers = markers
    /\ debug \in BOOLEAN
    /\ report_filename \in {"None", "set"}
    /\ pc = "walk"
    /\ stack = <<0>>
    /\ cur = 0
    /\ idx = 1
    /\ visited = {}
    /\ skipped = {}
    /\ excluded = {}
    /\ evaluated = {}
    /\ qualified = {}
    /\ written = {}
    /\ everEvaluated = {}
    /\ run = 1
    /\ copies = {}
    /\ report_rows = <<>>
    /\ csv = <<>>
    /\ printed = {}
    /\ PureOff

Next ==
    \/ SkipCompleted
    \/ SkipReceived
    \/ EnterDirectory
    \/ SkipNonMedia
    \/ ProcessMediaFile
    \/ FinishDirectory
    \/ EndTraversal
    \/ CleanupStep
    \/ CleanupDone

Spec == Init /\ [][Next]_vars

\* An interrupted run on a tree without markers, and its restart.
InitResume == Init /\ \A d \in Dirs : ~markers[d]

NextResume == Next \/ Kill \/ Restart

SpecResume == InitResume /\ [][NextResume]_vars

----------------------------------------------------------------------------
(* The two pure functions applied to metadata mappings and file names      *)
(* drawn from bounded sets.                                                *)

MaxHeadlineLen == 3

HeadlineAlphabet == {"a", " ", "\t", ":"}

TextsUpTo(alphabet, n) == UNION {[1..k -> alphabet] : k \in 0..n}

FamilyReunion ==
    <<"F","a","m","i","l","y",":"," ","R","e","u","n","i","o","n","/",
      "D","a","y"," ","1">>

AllIllegal == <<"a","\\","/",":","*","?","\"","<",">","|","b","_","-">>

DateValues ==
    { Absent,
      Num(<<"2","0","2","1">>),
      Str(SampleDate),
      Str(<<"2","0","2","1",":","0","7",":","0","4">>),
      Str(<<>>),
      Str(<<"2","0","2","1","-","0","7","-","0","4">>),
      Str(<<"x","2","0","2","1",":","0","7",":","0","4">>),
      Str(<<"1","2","0","2","1",":","0","7",":","0","4","5">>),
      Str(<<"2","0","2","1",":","7",":","0","4"," ">>) }

HeadlineValues ==
    {Absent, Num(<<"7">>), Str(FamilyReunion), Str(AllIllegal),
     Str(<<"P","i","c","n","i","c">>)}
    \cup {Str(t) : t \in TextsUpTo(HeadlineAlphabet, MaxHeadlineLen)}

LabelValues == {Absent, Str(<<"R","e","d">>), Str(<<" ","\t">>)}

ArtistValues == {Absent, Str(<<"x">>)}

PathValues ==
    { <<"I","M","G","_","0","0","4","2",".","N","E","F">>,
      <<"a",".","t","a","r",".","g","z">>,
      <<".","h","i","d","d","e","n">>,
      <<"n","o","e","x","t",".">> }

TravOff ==
    /\ names = [d \in 1..NumDirs |-> <<>>]
    /\ markers = [d \in Dirs |-> FALSE]
    /\ initMarkers = markers
    /\ debug = FALSE
    /\ report_filename = "None"
    /\ pc = "off"
    /\ stack = <<>>
    /\ cur = 0
    /\ idx = 1
    /\ visited = {}
    /\ skipped = {}
    /\ excluded = {}
    /\ evaluated = {}
    /\ qualified = {}
    /\ written = {}
    /\ everEvaluated = {}
    /\ run = 1
    /\ copies = {}
    /\ report_rows = <<>>
    /\ csv = <<>>
    /\ printed = {}

InitPure ==
    /\ TravOff
    /\ \E d \in DateValues, h \in HeadlineValues, l \in LabelValues,
          a \in ArtistValues :
          pmeta = [key \in Keys |->
                      CASE key = "DateTimeOriginal" -> d
                        [] key = "Headline" -> h
                        [] key = "Label" -> l
                        [] OTHER -> a]
    /\ ppath \in PathValues
    /\ pstep = "input"
    /\ pqual = FALSE
    /\ pname = [ok |-> FALSE, name |-> <<>>]

EvaluateCriteria ==
    /\ pstep = "input"
    /\ pqual' = meets_renaming_criteria(pmeta)
    /\ pstep' = "criteria"
    /\ UNCHANGED <<pmeta, ppath, pname>>
    /\ UNCHANGED travVars

GenerateName ==
    /\ pstep = "input"
    /\ pname' = generate_new_filename(pmeta, ppath)
    /\ pstep' = "named"
    /\ UNCHANGED <<pmeta, ppath, pqual>>
    /\ UNCHANGED travVars

NextPure == EvaluateCriteria \/ GenerateName

SpecPure == InitPure /\ [][NextPure]_vars

----------------------------------------------------------------------------
(* The claims.                                                             *)

FilesUnder(d) == {f \in Files : f[1] = d \/ IsUnder(f[1], d)}

\* No file of the set was read, copied or reported in this run.
Untouched(fs) ==
    /\ fs \cap evaluated = {}
    /\ fs \cap qualified = {}
    /\ \A c \in copies : c.file \notin fs
    /\ \A i \in 1..Len(report_rows) : report_rows[i].file \notin fs

\* C1: a directory that bears the checkpoint marker when the traversal
\* meets it is skipped entirely: it never reaches the file loop, none of the
\* files of its subtree is read, copied or reported, and none of its
\* subdirectories at any depth is met by the walk.
C1_MarkedSkipped ==
    \A d \in Dirs :
        initMarkers[d] =>
            /\ d \notin visited
            /\ Untouched(FilesUnder(d))
            /\ \A e \in Descendants(d) : e \notin Encountered

C1_Witness ==
    /\ pc = "done"
    /\ evaluated # {}
    /\ \E d \in skipped : initMarkers[d] /\ Descendants(d) # {}

\* C2: when a full run has completed (the traversal, then the cleanup), no
\* directory of the tree holds a checkpoint marker, whether the marker was
\* written by the run, lay in a directory skipped for the keyword, or was
\* there before the run.
C2_NoMarkerRemains ==
    pc = "done" => \A d \in Dirs : ~markers[d]

C2_Witness ==
    /\ pc = "done"
    /\ written # {}
    /\ \E d \in excluded : \E e \in Descendants(d) : initMarkers[e]

\* C3: in report mode no file is copied, and when the run has ended the CSV
\* file holds the header row followed by exactly one row for each qualifying
\* file the traversal met.
C3_ReportOneRowPerFile ==
    report_filename = "set" =>
        /\ copies = {}
        /\ pc \in {"done", "crashed"} =>
              /\ csv # <<>>
              /\ csv[1] = Header
              /\ Len(csv) = 1 + Cardinality(qualified)
              /\ \A f \in qualified : \E i \in 2..Len(csv) : csv[i].file = f

\* C4: in debug mode the only effect of a qualifying file is the diagnostic
\* print: the line is printed, nothing is copied, no row is appended, and the
\* traversal is otherwise as it would be without the file (it is still
\* running or has completed).
C4_DebugOnlyPrints ==
    (debug /\ qualified # {}) =>
        /\ \A f \in qualified : \E line \in printed : line[1] = f
        /\ copies = {}
        /\ report_rows = <<>>
        /\ pc # "crashed"

KeywordUpper == <<"R","E","C","E","I","V","E","D">>

\* The relative path holds the letters of the keyword in a row, each in
\* either case.
KeywordInPath(d) ==
    LET rel == RelPath(d)
    IN  \E p \in 1..Len(rel) :
            /\ p + Len(Keyword) - 1 <= Len(rel)
            /\ \A k \in 1..Len(Keyword) :
                  rel[p + k - 1] \in {Keyword[k], KeywordUpper[k]}

\* C5: a directory whose relative path contains "received" in any letter
\* case never reaches the file loop, none of its files is read, copied or
\* reported, no marker is written into it, and none of its subdirectories is
\* met by the walk.
C5_ReceivedSkipped ==
    \A d \in Dirs :
        KeywordInPath(d) =>
            /\ d \notin visited
            /\ d \notin written
            /\ Untouched(FilesUnder(d))
            /\ \A e \in Descendants(d) : e \notin Encountered

C5_Witness ==
    /\ pc = "done"
    /\ evaluated # {}
    /\ \E d \in excluded :
          /\ names[d] # Lower(names[d])
          /\ Descendants(d) # {}

\* The value is text that begins with 4 digits, a colon, 2 digits, a colon
\* and 2 digits.
BeginsWithDate(val) ==
    /\ val.k = "str"
    /\ Len(val.v) >= 10
    /\ \A i \in {1, 2, 3, 4, 6, 7, 9, 10} : val.v[i] \in Digits
    /\ val.v[5] = ":"
    /\ val.v[8] = ":"

\* The value is text with at least one character that is not whitespace.
TextWithNonWhitespace(val) ==
    /\ val.k = "str"
    /\ \E i \in 1..Len(val.v) : val.v[i] \notin Whitespace

\* C6: meets_renaming_criteria is true exactly when the capture date begins
\* with the date pattern, the headline is text with a non-whitespace
\* character and the label is text with a non-whitespace character; no other
\* field of the mapping has a say.
C6_CriteriaIff ==
    pstep = "criteria" =>
        (pqual <=> /\ BeginsWithDate(pmeta["DateTimeOriginal"])
                   /\ TextWithNonWhitespace(pmeta["Headline"])
                   /\ TextWithNonWhitespace(pmeta["Label"]))

C6_Witness ==
    /\ pstep = "criteria"
    /\ pqual
    /\ pmeta["Artist"] # Absent
    /\ Len(pmeta["DateTimeOriginal"].v) > 10

\* C7: no error aborts the run: the traversal is never abandoned, and when
\* the run has ended every media file of every directory that was not
\* skipped has been read and evaluated.
C7_NeverAborts ==
    /\ pc # "crashed"
    /\ pc = "done" => \A d \in visited : MediaFiles(d) \subseteq evaluated

\* The headline with the nine illegal characters left out and "_" for " ",
\* character by character.
RECURSIVE Sanitized(_)
Sanitized(h) ==
    IF h = <<>> THEN <<>>
    ELSE (CASE Head(h) \in {"\\", "/", ":", "*", "?", "\"", "<", ">", "|"} -> <<>>
            [] Head(h) = " " -> <<"_">>
            [] OTHER -> <<Head(h)>>) \o Sanitized(Tail(h))

\* The date text has YYYY:MM:DD at p, and nowhere before p.
LeftmostDateAt(t, p) ==
    /\ BeginsWithDate(Str(SubSeq(t, p, Len(t))))
    /\ \A q \in 1..(p - 1) : ~BeginsWithDate(Str(SubSeq(t, q, Len(t))))

Stamp(t, p) ==
    <<t[p], t[p + 1], t[p + 2], t[p + 3], t[p + 5], t[p + 6], t[p + 8], t[p + 9]>>

\* C8 as stated: for every mapping and path the result is
\* datestamp_sanitizedHeadline_stem+extension, the datestamp being the
\* matched YYYY:MM:DD portion of the capture date without its colons.
C8_FilenameForEveryMapping ==
    pstep = "named" =>
        /\ pname.ok
        /\ pmeta["DateTimeOriginal"].k = "str"
        /\ pmeta["Headline"].k = "str"
        /\ \E p \in 1..Len(pmeta["DateTimeOriginal"].v) :
              /\ LeftmostDateAt(pmeta["DateTimeOriginal"].v, p)
              /\ pname.name = Stamp(pmeta["DateTimeOriginal"].v, p) \o <<"_">>
                              \o Sanitized(pmeta["Headline"].v) \o <<"_">>
                              \o ppath

DateText(val) == IF val.k = "absent" THEN UnknownDate ELSE val.v

HeadlineText(val) == IF val.k = "absent" THEN NoHeadline ELSE val.v

\* C8 amended: for every mapping whose capture date and headline are each
\* text or absent, the result is datestamp_sanitizedHeadline_stem+extension,
\* where the datestamp is the leftmost YYYY:MM:DD portion of the capture
\* date without its colons, or unknown_date when the date is absent or has no
\* such portion, and the headline is no_headline when absent.
C8_FilenameAmended ==
    (/\ pstep = "named"
     /\ pmeta["DateTimeOriginal"].k \in {"str", "absent"}
     /\ pmeta["Headline"].k \in {"str", "absent"}) =>
        LET t == DateText(pmeta["DateTimeOriginal"])
            rest == <<"_">> \o Sanitized(HeadlineText(pmeta["Headline"]))
                    \o <<"_">> \o ppath
        IN  /\ pname.ok
            /\ \A p \in 1..Len(t) :
                  LeftmostDateAt(t, p) => pname.name = Stamp(t, p) \o rest
            /\ (\A p \in 1..Len(t) : ~LeftmostDateAt(t, p)) =>
                  pname.name = UnknownDate \o rest

C8_Witness ==
    /\ pstep = "named"
    /\ pmeta["DateTimeOriginal"] = Str(SampleDate)
    /\ pmeta["Headline"] = Str(FamilyReunion)
    /\ pname.name = <<"2","0","2","1","0","7","0","4","_","F","a","m","i","l","y","_","R","e","u","n","i","o","n","D","a","y","_","1","_","I","M","G","_","0","0","4","2",".","N","E","F">>

\* C9: a marker written by this run lies only in a directory other than the
\* root whose media entries have all been read and evaluated, and handed to
\* the report or the copy if they qualified; the directory whose files are
\* being processed bears no marker of this run; every marker on disk was
\* there before the run or was written by it after the file loop.
C9_MarkerOnlyWhenProcessed ==
    /\ \A d \in written :
          /\ d # 0
          /\ MediaFiles(d) \subseteq evaluated
          /\ ~(pc = "files" /\ cur = d)
          /\ \A f \in qualified :
                f[1] = d =>
                    \/ \E c \in copies : c.file = f
                    \/ \E i \in 1..Len(report_rows) : report_rows[i].file = f
    /\ \A d \in Dirs : markers[d] => (initMarkers[d] \/ d \in written)

C9_Witness ==
    /\ pc = "files"
    /\ idx > 1
    /\ cur # 0
    /\ cur \notin written
    /\ \E d \in written : markers[d] /\ MediaFiles(d) # {}

\* C10: when a run on a tree without markers was terminated and the restarted
\* run has completed, every media file of every directory whose path does not
\* hold the keyword has been read and evaluated in one of the two runs.
C10_ResumeLosesNoWork ==
    (run = 2 /\ pc = "done") =>
        \A d \in Dirs :
            ~KeywordInPath(d) => MediaFiles(d) \subseteq everEvaluated

====
